---- MODULE Spec2Model ----
(***************************************************************************)
(* A model of the procedural world generator and chunk store of            *)
(* three-js-minecraft: the seeded PRNG (mulberry32), the coordinate hash,  *)
(* the terrain/structure generator (WorldGenerator.generateChunk, OakTree) *)
(* and the chunk store with its streaming loop (HousingWorld).             *)
(*                                                                         *)
(* 32-bit words are pairs <<hi, lo>> of 16-bit halves, so that every       *)
(* intermediate value of the arithmetic stays inside TLC's integers while  *)
(* the results keep their full 32-bit width.                               *)
(***************************************************************************)
EXTENDS Integers, Sequences, FiniteSets, TLC

\* ------------------------------------------------------------------------
\* 32-bit arithmetic as JavaScript performs it (|0, >>>, ^, |, Math.imul)
\* ------------------------------------------------------------------------

Half == 65536

Pow2(n) == 2 ^ n

\* F applied to the value of v, with v evaluated before F's body is entered
\* (a loop's state is computed step by step, not as one nested expression).
Then(F(_), v) == CHOOSE r \in {F(e) : e \in {v}} : TRUE

\* ToInt32 / ToUint32 of an integer-valued number n, as its bit pattern.
ToWord(n) == << (n \div Half) % Half, n % Half >>

RECURSIVE BitsXor(_, _, _)
BitsXor(a, b, n) ==
    IF n = 0 THEN 0
    ELSE ((a + b) % 2) + 2 * BitsXor(a \div 2, b \div 2, n - 1)

RECURSIVE BitsOr(_, _, _)
BitsOr(a, b, n) ==
    IF n = 0 THEN 0
    ELSE (IF (a % 2) + (b % 2) > 0 THEN 1 ELSE 0)
         + 2 * BitsOr(a \div 2, b \div 2, n - 1)

\* The bitwise operations on 4-bit digits, tabulated once.
XorDigit == [a \in 0..15 |-> [b \in 0..15 |-> BitsXor(a, b, 4)]]
OrDigit == [a \in 0..15 |-> [b \in 0..15 |-> BitsOr(a, b, 4)]]

Digit(a, k) == (a \div Pow2(4 * k)) % 16

Xor16(a, b) ==
    XorDigit[Digit(a, 0)][Digit(b, 0)] + 16 * XorDigit[Digit(a, 1)][Digit(b, 1)]
    + 256 * XorDigit[Digit(a, 2)][Digit(b, 2)]
    + 4096 * XorDigit[Digit(a, 3)][Digit(b, 3)]

Or16(a, b) ==
    OrDigit[Digit(a, 0)][Digit(b, 0)] + 16 * OrDigit[Digit(a, 1)][Digit(b, 1)]
    + 256 * OrDigit[Digit(a, 2)][Digit(b, 2)]
    + 4096 * OrDigit[Digit(a, 3)][Digit(b, 3)]

\* a ^ b
Xor32(a, b) == << Xor16(a[1], b[1]), Xor16(a[2], b[2]) >>

\* a | b
Or32(a, b) == << Or16(a[1], b[1]), Or16(a[2], b[2]) >>

\* (a + b) | 0
Add32(a, b) ==
    LET lo == a[2] + b[2]
    IN  << (a[1] + b[1] + (lo \div Half)) % Half, lo % Half >>

\* a >>> k, for 0 <= k <= 16
Shr32(a, k) ==
    << a[1] \div Pow2(k),
       ((a[1] % Pow2(k)) * Pow2(16 - k) + (a[2] \div Pow2(k))) % Half >>

\* The full 32-bit product of two 16-bit halves, as a word.
MulHalves(x, y) ==
    LET p1  == x * (y \div 256)
        p0  == x * (y % 256)
        low == (p1 % 256) * 256 + p0
    IN  << ((p1 \div 256) + (low \div Half)) % Half, low % Half >>

\* Math.imul(a, b): the low 32 bits of the product.
Imul32(a, b) ==
    LET ll == MulHalves(a[2], b[2])
        hl == MulHalves(a[1], b[2])
        lh == MulHalves(a[2], b[1])
    IN  << (ll[1] + hl[2] + lh[2]) % Half, ll[2] >>

\* Math.floor((w / 4294967296) * n) for a word w and 1 <= n <= 256: the
\* division by 2^32 and the product by n are exact in double precision.
FloorScale(w, n) == (w[1] * n + ((w[2] * n) \div Half)) \div Half

\* ------------------------------------------------------------------------
\* Seeded PRNG (mulberry32)
\* ------------------------------------------------------------------------

Mulberry32Increment == ToWord(1831565813)     \* 0x6d2b79f5

\* seed = (seed + 0x6d2b79f5) | 0
mulberry32Advance(seed) == Add32(seed, Mulberry32Increment)

\* The value returned by a call that has just left the closure's seed at s,
\* as the numerator of a fraction over 4294967296.
\* let t = Math.imul(seed ^ (seed >>> 15), 1 | seed)
mulberry32Mix1(s) == Imul32(Xor32(s, Shr32(s, 15)), Or32(ToWord(1), s))

\* t = (t + Math.imul(t ^ (t >>> 7), 61 | t)) ^ t
mulberry32Mix2(t) ==
    Xor32(Add32(t, Imul32(Xor32(t, Shr32(t, 7)), Or32(ToWord(61), t))), t)

\* (t ^ (t >>> 14)) >>> 0
mulberry32Mix3(t) == Xor32(t, Shr32(t, 14))

mulberry32Output(s) == mulberry32Mix3(mulberry32Mix2(mulberry32Mix1(s)))

\* mulberry32(seed): the closure, whose only state is its captured seed
\* (given here as a word: callers pass ToWord of the number they hold).
mulberry32(seed) == seed

\* One call of the closure: the new captured seed and the value returned.
mulberry32Next(state) ==
    Then(LAMBDA s : [state |-> s, out |-> mulberry32Output(s)],
         mulberry32Advance(state))

\* ------------------------------------------------------------------------
\* Coordinate hash
\* ------------------------------------------------------------------------

HashSeedMask == ToWord(73244475)              \* 0x45d9f3b
HashMultiplier == ToWord(668265261)           \* 0x27d4eb2d

\* h = Math.imul(h ^ (c * 1664525 + 1013904223), 0x27d4eb2d) | 0
hashStep(h, c) ==
    Imul32(Xor32(h, ToWord(c * 1664525 + 1013904223)), HashMultiplier)

\* h ^= h >>> 16; return h >>> 0
hashFinish(h) == Xor32(h, Shr32(h, 16))

hashCoords(seed, x, z) ==
    hashFinish(hashStep(hashStep(Xor32(ToWord(seed), HashSeedMask), x), z))

\* ------------------------------------------------------------------------
\* Program constants
\* ------------------------------------------------------------------------

SIZE == 32                  \* Chunk.SIZE
HEIGHT == 256               \* HousingWorld.HEIGHT
cs == 32                    \* generateChunk's copy of Chunk.SIZE
numCY == 8                  \* generateChunk's number of chunk layers
UnloadMargin == 3           \* update: unloadLimit = renderDistance + 3

BLK_AIR == 0
BLK_STONE == 1
BLK_GRASS == 8
BLK_DIRT == 9
BLK_BEDROCK == 19
BLK_SAND == 20
OAK_LOG == 26
OAK_LEAVES == 30
AIR == 0

\* buildChunks' default argument.
Infinity == -1

\* a >= b where b may be Infinity
AtLeast(a, b) == b # Infinity /\ a >= b

Abs(n) == IF n < 0 THEN -n ELSE n
Min(a, b) == IF a <= b THEN a ELSE b

\* Math.floor(a / b) for integers a and b > 0
\* A division that truncates toward zero, as x / 32 | 0 would.
TruncDiv(a, b) == IF a >= 0 THEN a \div b ELSE -((-a) \div b)

\* Math.floor(a / b) for b > 0.
FloorDiv(a, b) == a \div b

\* ------------------------------------------------------------------------
\* Chunk (the voxel buffer of one 32x32x32 region)
\* ------------------------------------------------------------------------

\* A buffer holds SIZE^3 block ids, all 0 at first. It is written here as
\* the function from the indices of its non-zero entries to their values.
EmptyBlocks == [i \in {} |-> 0]

BlockIndex(lx, ly, lz) == (lx * cs + ly) * cs + lz

ReadBlocks(blocks, i) == IF i \in DOMAIN blocks THEN blocks[i] ELSE 0

WriteBlocks(blocks, i, b) ==
    IF b = 0
    THEN [j \in (DOMAIN blocks) \ {i} |-> blocks[j]]
    ELSE (i :> b) @@ blocks

NewChunk(cx, cy, cz) ==
    [x |-> cx, y |-> cy, z |-> cz, blocks |-> EmptyBlocks, isDirty |-> FALSE]

setBlock(chunk, lx, ly, lz, b) ==
    [chunk EXCEPT !.blocks = WriteBlocks(@, BlockIndex(lx, ly, lz), b)]

getBlock(chunk, lx, ly, lz) == ReadBlocks(chunk.blocks, BlockIndex(lx, ly, lz))

\* ------------------------------------------------------------------------
\* HousingWorld: a world w is [chunks, dirtyChunks, generatedColumns,
\* remeshed]. chunks maps the keys of the loaded chunks to the chunks;
\* dirtyChunks lists the dirty chunks in insertion order (the iteration
\* order of a JavaScript Set); remeshed lists the chunks whose mesh the
\* current call has rebuilt (the calls made on the rendering collaborator).
\* ------------------------------------------------------------------------

chunkKey(cx, cy, cz) == <<cx, cy, cz>>
columnKey(cx, cz) == <<cx, cz>>

EmptyWorld ==
    [chunks |-> [k \in {} |-> NewChunk(0, 0, 0)],
     dirtyChunks |-> <<>>,
     generatedColumns |-> {},
     remeshed |-> <<>>]

isColumnGenerated(w, cx, cz) == columnKey(cx, cz) \in w.generatedColumns

\* A markColumnGenerated that records nothing.
markColumnGeneratedLate(w, cx, cz) == w

markColumnGenerated(w, cx, cz) ==
    [w EXCEPT !.generatedColumns = @ \cup {columnKey(cx, cz)}]

hasChunk(w, cx, cy, cz) == chunkKey(cx, cy, cz) \in DOMAIN w.chunks

getOrCreateChunk(w, cx, cy, cz) ==
    LET key == chunkKey(cx, cy, cz)
    IN  IF key \in DOMAIN w.chunks THEN w
        ELSE [w EXCEPT !.chunks = (key :> NewChunk(cx, cy, cz)) @@ @]

InSeq(s, e) == \E i \in 1..Len(s) : s[i] = e

RemoveFromSeq(s, e) == SelectSeq(s, LAMBDA k : k # e)

\* chunk.isDirty = true; dirtyChunks.add(chunk)
\* A markDirty that sets the flag and forgets the dirty set.
markDirtyFlagOnly(w, key) == [w EXCEPT !.chunks[key].isDirty = TRUE]

markDirty(w, key) ==
    [w EXCEPT !.chunks[key].isDirty = TRUE,
              !.dirtyChunks = IF InSeq(@, key) THEN @ ELSE Append(@, key)]

\* A vertical bound check that lets y = HEIGHT through.
outOfHeightInclusive(y) == y < 0 \/ y > HEIGHT

\* The vertical bound check of set and get.
outOfHeight(y) == y < 0 \/ y >= HEIGHT

set(w, x, y, z, block) ==
    IF outOfHeight(y) THEN w
    ELSE LET cx == FloorDiv(x, SIZE)
             cy == FloorDiv(y, SIZE)
             cz == FloorDiv(z, SIZE)
             lx == x - cx * SIZE
             ly == y - cy * SIZE
             lz == z - cz * SIZE
             key == chunkKey(cx, cy, cz)
             w1 == getOrCreateChunk(w, cx, cy, cz)
             w2 == [w1 EXCEPT !.chunks[key] = setBlock(@, lx, ly, lz, block)]
         IN  markDirty(w2, key)

\* A lookup through the get-or-create path.
getChunkCreating(w, cx, cy, cz) == getOrCreateChunk(w, cx, cy, cz)

\* The store after getChunk: the lookup in the chunk map changes nothing.
getChunk(w, cx, cy, cz) == w

\* The store after get(x, y, z).
getWorld(w, x, y, z) ==
    IF outOfHeight(y) THEN w
    ELSE getChunk(w, FloorDiv(x, SIZE), FloorDiv(y, SIZE), FloorDiv(z, SIZE))

get(w, x, y, z) ==
    IF outOfHeight(y) THEN 0
    ELSE LET cx == FloorDiv(x, SIZE)
             cy == FloorDiv(y, SIZE)
             cz == FloorDiv(z, SIZE)
         IN  IF ~hasChunk(w, cx, cy, cz) THEN 0
             ELSE getBlock(w.chunks[chunkKey(cx, cy, cz)],
                           x - cx * SIZE, y - cy * SIZE, z - cz * SIZE)

\* The loop of buildChunks: the dirty chunks in insertion order, each
\* remeshed, flagged clean and deleted from the set, until ++built is at
\* least maxChunks.
RECURSIVE buildLoop(_, _, _)
buildLoop(w, built, maxChunks) ==
    IF w.dirtyChunks = <<>> THEN w
    ELSE LET key == Head(w.dirtyChunks)
             w1 == [w EXCEPT !.chunks[key].isDirty = FALSE,
                             !.dirtyChunks = Tail(@),
                             !.remeshed = Append(@, key)]
         IN  IF AtLeast(built + 1, maxChunks) THEN w1
             ELSE buildLoop(w1, built + 1, maxChunks)

buildChunks(w, maxChunks) == buildLoop(w, 0, maxChunks)

clear(w) ==
    [w EXCEPT !.chunks = [k \in {} |-> NewChunk(0, 0, 0)],
              !.dirtyChunks = <<>>,
              !.generatedColumns = {}]

\* ------------------------------------------------------------------------
\* WorldGenerator. A generator g is [seed, seaLevel, minHeight, maxHeight,
\* structures, noise]. The noise field built from the seed is carried as
\* the values octave() returns: noise.cells maps world cells <<wx, wz>> to
\* numerators over noise.den, and every other cell has numerator noise.base.
\* ------------------------------------------------------------------------

\* noise.octave(wx, wz, 6, 0.5, 0.004), as a numerator over g.noise.den
octave(g, wx, wz) ==
    IF <<wx, wz>> \in DOMAIN g.noise.cells
    THEN g.noise.cells[<<wx, wz>>]
    ELSE g.noise.base

\* Math.round(a / b) for b > 0: the nearest integer, halves rounded up.
Round(a, b) == (2 * a + b) \div (2 * b)

getSurfaceY(g, wx, wz) ==
    Round(g.minHeight * g.noise.den
            + octave(g, wx, wz) * (g.maxHeight - g.minHeight),
          g.noise.den)

\* The block generateChunk writes at height wy of a cell whose surface is
\* surfaceY.
terrainBlock(wy, surfaceY, isBeach) ==
    IF wy = 0 THEN BLK_BEDROCK
    ELSE IF wy < surfaceY - 4 THEN BLK_STONE
    ELSE IF wy < surfaceY THEN (IF isBeach THEN BLK_SAND ELSE BLK_DIRT)
    ELSE (IF isBeach THEN BLK_SAND ELSE BLK_GRASS)

\* A skip test that also drops the layer starting exactly at the highest
\* surface.
skipLayerFrom(cyMin, maxHeight) == cyMin >= maxHeight

\* Whether a layer starting at cyMin is skipped for a column whose highest
\* surface is maxHeight.
skipLayer(cyMin, maxHeight) == cyMin > maxHeight

\* The terrain loop's writes into the buffer of layer cy: for every cell
\* with surfaceY >= cyMin, the heights cyMin..min(surfaceY, cyMax - 1).
fillLayer(blocks, heights, cy, seaLevel) ==
    LET cyMin == cy * cs
        cyMax == cyMin + cs
        cells == {i \in 0..(cs * cs - 1) : heights[i] >= cyMin}
        written ==
            UNION {{BlockIndex(i \div cs, wy - cyMin, i % cs) :
                        wy \in cyMin..Min(heights[i], cyMax - 1)} : i \in cells}
        cell(j) == (j \div (cs * cs)) * cs + (j % cs)
        wyOf(j) == cyMin + ((j \div cs) % cs)
    IN  [j \in (DOMAIN blocks) \cup written |->
            IF j \in written
            THEN terrainBlock(wyOf(j), heights[cell(j)],
                              heights[cell(j)] <= seaLevel + 2)
            ELSE blocks[j]]

RECURSIVE terrainLoop(_, _, _, _, _, _, _)
terrainLoop(w, heights, maxHeight, seaLevel, chunkX, chunkZ, cy) ==
    IF ~(cy < numCY) THEN w
    ELSE IF skipLayer(cy * cs, maxHeight)
    THEN terrainLoop(w, heights, maxHeight, seaLevel, chunkX, chunkZ, cy + 1)
    ELSE LET key == chunkKey(chunkX, cy, chunkZ)
             w1 == getOrCreateChunk(w, chunkX, cy, chunkZ)
             w2 == [w1 EXCEPT !.chunks[key].blocks =
                        fillLayer(@, heights, cy, seaLevel)]
         IN  Then(LAMBDA v : terrainLoop(v, heights, maxHeight, seaLevel,
                                         chunkX, chunkZ, cy + 1),
                  markDirty(w2, key))

\* ------------------------------------------------------------------------
\* OakTree
\* ------------------------------------------------------------------------

\* The canopy loop's cells <<dx, dy, dz>> in the order the loops visit them.
RingOffsets(dy) ==
    LET radius == IF dy = 1 THEN 1 ELSE 2
        side == 2 * radius + 1
        all == [k \in 1..(side * side) |->
                    << ((k - 1) \div side) - radius, dy,
                       ((k - 1) % side) - radius >>]
    IN  SelectSeq(all, LAMBDA o : ~(Abs(o[1]) = radius /\ Abs(o[3]) = radius))

LeafOffsets == RingOffsets(-1) \o RingOffsets(0) \o RingOffsets(1)

RECURSIVE trunkLoop(_, _, _, _, _, _)
trunkLoop(w, x, y, z, i, height) ==
    IF ~(i < height) THEN w
    ELSE Then(LAMBDA v : trunkLoop(v, x, y, z, i + 1, height),
              set(w, x, y + i, z, OAK_LOG))

\* One canopy cell: written only where the world reads AIR.
\* A canopy that overwrites whatever the cell holds.
placeLeafAlways(w, lx, ly, lz) == set(w, lx, ly, lz, OAK_LEAVES)

placeLeaf(w, lx, ly, lz) ==
    IF get(w, lx, ly, lz) = AIR THEN set(w, lx, ly, lz, OAK_LEAVES) ELSE w

\* The canopy loops over the cells LeafOffsets[lo..hi], in order. (The
\* range is walked by halves to keep the evaluation shallow; the cells are
\* visited in the same order as by the loops.)
RECURSIVE leafLoop(_, _, _, _, _, _)
leafLoop(w, x, leafBase, z, lo, hi) ==
    IF lo > hi THEN w
    ELSE IF lo = hi
    THEN placeLeaf(w, x + LeafOffsets[lo][1], leafBase + LeafOffsets[lo][2],
                   z + LeafOffsets[lo][3])
    ELSE LET mid == (lo + hi) \div 2
         IN  Then(LAMBDA v : leafLoop(v, x, leafBase, z, mid + 1, hi),
                  leafLoop(w, x, leafBase, z, lo, mid))

\* OakTree.generate(world, x, y, z, rand): the world and the stream after it.
\* The tree for the draw r of its stream: trunk, canopy, cap.
OakTreeBuild(w, x, y, z, r) ==
    LET height == 4 + FloorScale(r.out, 3)
        leafBase == y + height
    IN  [world |->
            Then(LAMBDA w2 : set(w2, x, leafBase + 2, z, OAK_LEAVES),
                 Then(LAMBDA w1 : leafLoop(w1, x, leafBase, z, 1, Len(LeafOffsets)),
                      trunkLoop(w, x, y, z, 0, height))),
         rand |-> r.state]

OakTree_generate(w, x, y, z, rand) ==
    OakTreeBuild(w, x, y, z, mulberry32Next(rand))

\* ------------------------------------------------------------------------
\* WorldGenerator.generateChunk
\* ------------------------------------------------------------------------

DefaultStructures == << [structure |-> "OakTree", attemptsPerChunk |-> 3] >>

\* A trial that takes the first draw for z and the second for x.
attemptAtSwapped(w, g, heights, wx0, wz0, lx, lz, rand) ==
    LET surfaceY == heights[lz * cs + lx]
        isBeach == surfaceY <= g.seaLevel + 2
    IN  IF ~isBeach
        THEN OakTree_generate(w, wx0 + lz, surfaceY + 1, wz0 + lx, rand)
        ELSE [world |-> w, rand |-> rand]

\* One trial at the local cell (lx, lz), the stream standing at rand.
attemptAt(w, g, heights, wx0, wz0, lx, lz, rand) ==
    LET surfaceY == heights[lx * cs + lz]
        isBeach == surfaceY <= g.seaLevel + 2
    IN  IF ~isBeach
        THEN OakTree_generate(w, wx0 + lx, surfaceY + 1, wz0 + lz, rand)
        ELSE [world |-> w, rand |-> rand]

\* The trials of one catalog entry; st is [world, rand], the world so far
\* and the chunk's stream.
RECURSIVE attemptLoop(_, _, _, _, _, _, _)
attemptLoop(st, g, heights, wx0, wz0, entry, attempt) ==
    IF ~(attempt < entry.attemptsPerChunk) THEN st
    ELSE Then(LAMBDA r1 :
            Then(LAMBDA r2 :
                Then(LAMBDA v : attemptLoop(v, g, heights, wx0, wz0, entry,
                                            attempt + 1),
                     attemptAt(st.world, g, heights, wx0, wz0,
                               FloorScale(r1.out, cs), FloorScale(r2.out, cs),
                               r2.state)),
                mulberry32Next(r1.state)),
            mulberry32Next(st.rand))

RECURSIVE structuresLoop(_, _, _, _, _, _)
structuresLoop(st, g, heights, wx0, wz0, k) ==
    IF k > Len(g.structures) THEN st
    ELSE Then(LAMBDA v : structuresLoop(v, g, heights, wx0, wz0, k + 1),
              attemptLoop(st, g, heights, wx0, wz0, g.structures[k], 0))

SetMax(S, floor) == IF S = {} THEN floor
                    ELSE LET m == CHOOSE a \in S : \A b \in S : b <= a
                         IN  IF m > floor THEN m ELSE floor

\* A body whose stream is seeded by the number of columns generated so far
\* instead of the column's coordinates.
generateBodyShared(w, g, chunkX, chunkZ) ==
    LET wx0 == chunkX * cs
        wz0 == chunkZ * cs
        heights == [i \in 0..(cs * cs - 1) |->
                        getSurfaceY(g, wx0 + (i \div cs), wz0 + (i % cs))]
        maxHeight == SetMax({heights[i] : i \in 0..(cs * cs - 1)}, 0)
        chunkRand == mulberry32(hashCoords(g.seed, Cardinality(w.generatedColumns), 0))
    IN  Then(LAMBDA w1 : structuresLoop([world |-> w1, rand |-> chunkRand],
                                        g, heights, wx0, wz0, 1).world,
             terrainLoop(w, heights, maxHeight, g.seaLevel, chunkX, chunkZ, 0))

\* The body of generateChunk after its guard and markColumnGenerated.
generateBody(w, g, chunkX, chunkZ) ==
    LET wx0 == chunkX * cs
        wz0 == chunkZ * cs
        heights == [i \in 0..(cs * cs - 1) |->
                        getSurfaceY(g, wx0 + (i \div cs), wz0 + (i % cs))]
        maxHeight == SetMax({heights[i] : i \in 0..(cs * cs - 1)}, 0)
        chunkRand == mulberry32(hashCoords(g.seed, chunkX, chunkZ))
    IN  Then(LAMBDA w1 : structuresLoop([world |-> w1, rand |-> chunkRand],
                                        g, heights, wx0, wz0, 1).world,
             terrainLoop(w, heights, maxHeight, g.seaLevel, chunkX, chunkZ, 0))

\* A generator that never sets the column's flag.
generateChunkUnflagged(w, g, chunkX, chunkZ) ==
    IF isColumnGenerated(w, chunkX, chunkZ) THEN w
    ELSE generateBody(w, g, chunkX, chunkZ)

\* A generator without the guard of line 168: every call generates again.
generateChunkUnguarded(w, g, chunkX, chunkZ) ==
    generateBody(markColumnGenerated(w, chunkX, chunkZ), g, chunkX, chunkZ)

generateChunk(w, g, chunkX, chunkZ) ==
    IF isColumnGenerated(w, chunkX, chunkZ) THEN w
    ELSE generateBody(markColumnGenerated(w, chunkX, chunkZ), g, chunkX, chunkZ)

\* ------------------------------------------------------------------------
\* HousingWorld.update
\* ------------------------------------------------------------------------

\* The columns <<dx, dz>> of ring r in the order the loops visit them.
RingCells(r) ==
    LET side == 2 * r + 1
        all == [k \in 1..(side * side) |->
                    << ((k - 1) \div side) - r, ((k - 1) % side) - r >>]
    IN  SelectSeq(all, LAMBDA d : ~(Abs(d[1]) # r /\ Abs(d[2]) # r))

\* The rings from the outermost in.
RECURSIVE RingOrderFarFirst(_, _)
RingOrderFarFirst(r, renderDistance) ==
    IF r > renderDistance THEN <<>>
    ELSE RingOrderFarFirst(r + 1, renderDistance) \o RingCells(r)

\* The offsets the generation loops visit, in order: ring 0, ring 1, ...
RECURSIVE RingOrder(_, _)
RingOrder(r, renderDistance) ==
    IF r > renderDistance THEN <<>>
    ELSE RingCells(r) \o RingOrder(r + 1, renderDistance)

\* The generation loops: st is [world, generated]; order is the sequence of
\* cells still to visit.
RECURSIVE generateLoop(_, _, _, _, _, _)
generateLoop(st, g, pcx, pcz, order, maxGenPerFrame) ==
    IF order = <<>> THEN st
    ELSE LET cx == pcx + Head(order)[1]
             cz == pcz + Head(order)[2]
         IN  IF ~isColumnGenerated(st.world, cx, cz)
             THEN Then(LAMBDA v :
                        IF v.generated >= maxGenPerFrame THEN v
                        ELSE generateLoop(v, g, pcx, pcz, Tail(order),
                                          maxGenPerFrame),
                       [world |-> generateChunk(st.world, g, cx, cz),
                        generated |-> st.generated + 1])
             ELSE generateLoop(st, g, pcx, pcz, Tail(order), maxGenPerFrame)

updateGenerate(w, g, pcx, pcz, renderDistance, maxGenPerFrame) ==
    generateLoop([world |-> w, generated |-> 0], g, pcx, pcz,
                 RingOrder(0, renderDistance), maxGenPerFrame).world

\* An unload test that also drops the chunks exactly at the limit.
tooFarAtLimit(x, z, pcx, pcz, unloadLimit) ==
    Abs(x - pcx) >= unloadLimit \/ Abs(z - pcz) >= unloadLimit

\* Whether update unloads a chunk of column (x, z).
tooFar(x, z, pcx, pcz, unloadLimit) ==
    Abs(x - pcx) > unloadLimit \/ Abs(z - pcz) > unloadLimit

\* An unload without the margin: everything beyond renderDistance goes.
updateUnloadNoMargin(w, pcx, pcz, renderDistance) ==
    LET gone == {k \in DOMAIN w.chunks :
                    tooFar(w.chunks[k].x, w.chunks[k].z, pcx, pcz, renderDistance)}
    IN  [w EXCEPT !.chunks = [k \in (DOMAIN @) \ gone |-> @[k]],
                  !.dirtyChunks = SelectSeq(@, LAMBDA k : k \notin gone)]

\* An unload that leaves the unloaded chunks in the dirty set.
updateUnloadChunksOnly(w, pcx, pcz, renderDistance) ==
    LET unloadLimit == renderDistance + UnloadMargin
        gone == {k \in DOMAIN w.chunks :
                    tooFar(w.chunks[k].x, w.chunks[k].z, pcx, pcz, unloadLimit)}
    IN  [w EXCEPT !.chunks = [k \in (DOMAIN @) \ gone |-> @[k]]]

updateUnload(w, pcx, pcz, renderDistance) ==
    LET unloadLimit == renderDistance + UnloadMargin
        gone == {k \in DOMAIN w.chunks :
                    tooFar(w.chunks[k].x, w.chunks[k].z, pcx, pcz, unloadLimit)}
    IN  [w EXCEPT !.chunks = [k \in (DOMAIN @) \ gone |-> @[k]],
                  !.dirtyChunks = SelectSeq(@, LAMBDA k : k \notin gone)]

update(w, playerX, playerZ, g, renderDistance, maxGenPerFrame, maxBuildPerFrame) ==
    LET pcx == FloorDiv(playerX, SIZE)
        pcz == FloorDiv(playerZ, SIZE)
    IN  Then(LAMBDA w2 : buildChunks(w2, maxBuildPerFrame),
             Then(LAMBDA w1 : updateUnload(w1, pcx, pcz, renderDistance),
                  updateGenerate(w, g, pcx, pcz, renderDistance, maxGenPerFrame)))

\* ------------------------------------------------------------------------
\* State
\* ------------------------------------------------------------------------

VARIABLES
    chunks,             \* HousingWorld.chunks
    dirtyChunks,        \* HousingWorld.dirtyChunks, in insertion order
    generatedColumns,   \* HousingWorld.generatedColumns
    remeshed,           \* the chunks whose mesh the last call rebuilt
    generator,          \* the WorldGenerator handed to the world's calls
    last,               \* the last call: its name, arguments and result
    ops,                \* the number of calls made so far
    streams,            \* the captured seed of each mulberry32 closure
    draws               \* each closure's first seed and the values it returned

vars == << chunks, dirtyChunks, generatedColumns, remeshed, generator, last,
           ops, streams, draws >>

storeVars == << chunks, dirtyChunks, generatedColumns >>

\* The world as a call finds it.
World ==
    [chunks |-> chunks, dirtyChunks |-> dirtyChunks,
     generatedColumns |-> generatedColumns, remeshed |-> <<>>]

\* The world as the call of a step has left it.
WorldAfter ==
    [chunks |-> chunks', dirtyChunks |-> dirtyChunks',
     generatedColumns |-> generatedColumns', remeshed |-> remeshed']

Install(w) ==
    /\ chunks' = w.chunks
    /\ dirtyChunks' = w.dirtyChunks
    /\ generatedColumns' = w.generatedColumns
    /\ remeshed' = w.remeshed

Call(op, args, result) == [op |-> op, args |-> args, result |-> result]

\* ------------------------------------------------------------------------
\* Bounds and inputs
\* ------------------------------------------------------------------------

MaxOps == 3             \* calls per behaviour of Spec
MaxTicks == 3           \* update calls per behaviour of SpecStream
MaxSets == 2            \* set calls per behaviour of SpecCoord
MaxDraws == 3           \* draws per stream in SpecPRNG
OrderCount == 4         \* columns generated, in every order, in SpecOrder
FrameClock == 2         \* the frame counter of SpecSettle wraps at this value
MaxOctaves == 3         \* octave counts 0..MaxOctaves in SpecNoise
MaxLookups == 1         \* sample lookups per behaviour of SpecPerm
MaxColumns == 2         \* generateChunk calls per behaviour of SpecTrials
MaxNested == 1          \* nested calls per generateChunk call in SpecPhase

\* The noise values are numerators over 256; with minHeight = -1 and
\* maxHeight = 255 a numerator n gives the surface n - 1.
NoiseOf(base, cells) == [den |-> 256, base |-> base, cells |-> cells]

\* A generator with the default catalog on which trees grow everywhere (no
\* cell is beach): bare ground (surface -1) except for the raised cells.
TreeGenerator(seed, cells) ==
    [seed |-> seed, seaLevel |-> -4, minHeight |-> -1, maxHeight |-> 255,
     structures |-> DefaultStructures, noise |-> NoiseOf(0, cells)]

\* Seed 7: the first tree of column (2, -1) stands at local (1, 0) and
\* overhangs columns (1, -1), (2, -2) and (1, -2); the raised cell (63, -32)
\* of column (1, -1) reaches into its canopy.
GeneratorA == TreeGenerator(7, <<63, -32>> :> 4)

\* The default seed: the third tree of column (2, -2) stands at local (1, 31)
\* and overhangs columns (1, -2), (2, -1) and (1, -1); the raised cell
\* (65, -32) of column (2, -1) reaches into its canopy.
GeneratorB == TreeGenerator(12345, <<65, -32>> :> 4)

GenColumns == { <<2, -1>>, <<1, -1>> }

Budgets == { 0, 1, 2 }
RenderDistances == { 0, 1 }

\* Observer positions: inside column (2, -1), and inside column (6, -1),
\* four columns away.
PlayerPositions == { <<70, -20>>, <<200, -20>> }

SetCells == { <<-1, 5, -1>>, <<70, -1, -20>>, <<70, 256, -20>>, <<70, 255, -20>> }
SetBlocks == { 0, 7 }

\* ------------------------------------------------------------------------
\* Actions: the calls a host makes on one world
\* ------------------------------------------------------------------------

Step(op, args, result) ==
    /\ last' = Call(op, args, result)
    /\ ops' = ops + 1
    /\ UNCHANGED << generator, streams, draws >>

\* result: whether the column was already flagged (the early return).
GenerateChunk(cx, cz) ==
    /\ Install(generateChunk(World, generator, cx, cz))
    /\ Step("generateChunk", <<cx, cz>>,
            IF isColumnGenerated(World, cx, cz) THEN 1 ELSE 0)

Update(playerX, playerZ, renderDistance, maxGenPerFrame, maxBuildPerFrame) ==
    /\ Install(update(World, playerX, playerZ, generator, renderDistance,
                      maxGenPerFrame, maxBuildPerFrame))
    /\ Step("update", <<playerX, playerZ, renderDistance, maxGenPerFrame,
                        maxBuildPerFrame>>, 0)

BuildChunks(maxChunks) ==
    /\ Install(buildChunks(World, maxChunks))
    /\ Step("buildChunks", <<maxChunks>>, 0)

Set(x, y, z, block) ==
    /\ Install(set(World, x, y, z, block))
    /\ Step("set", <<x, y, z, block>>, 0)

Get(x, y, z) ==
    /\ Install(getWorld(World, x, y, z))
    /\ Step("get", <<x, y, z>>, get(World, x, y, z))

Clear ==
    /\ Install(clear(World))
    /\ Step("clear", <<>>, 0)

InitStore ==
    /\ chunks = EmptyWorld.chunks
    /\ dirtyChunks = <<>>
    /\ generatedColumns = {}
    /\ remeshed = <<>>
    /\ last = Call("new", <<>>, 0)
    /\ ops = 0

NoStreams ==
    /\ streams = <<>>
    /\ draws = <<>>

\* ------------------------------------------------------------------------
\* Spec: every call, on the world of GeneratorA
\* ------------------------------------------------------------------------

Init ==
    /\ InitStore
    /\ NoStreams
    /\ generator = GeneratorA

\* The host stops after MaxOps calls.
More == ops < MaxOps

Next ==
    \/ \E c \in GenColumns : More /\ GenerateChunk(c[1], c[2])
    \/ \E p \in PlayerPositions : More /\ Update(p[1], p[2], 0, 1, 1)
    \/ \E m \in Budgets \cup {Infinity} : More /\ BuildChunks(m)
    \/ \E c \in SetCells, b \in SetBlocks : More /\ Set(c[1], c[2], c[3], b)
    \/ \E c \in SetCells : More /\ Get(c[1], c[2], c[3])
    \/ More /\ Clear

Spec == Init /\ [][Next]_vars

\* ------------------------------------------------------------------------
\* C1: column generation is idempotent
\* ------------------------------------------------------------------------

\* C1: a generateChunk call on a column that an earlier call already
\* generated leaves chunks, dirty set and generated-column set exactly as
\* they were, whatever happened in between (here: sets, remeshing, updates);
\* and right after any generateChunk call, calling it again for the same
\* column returns the store it was given.
C1_Step ==
    last'.op = "generateChunk" =>
        /\ (columnKey(last'.args[1], last'.args[2]) \in generatedColumns
                => UNCHANGED storeVars)
        /\ generateChunk(WorldAfter, generator, last'.args[1], last'.args[2])
               = WorldAfter

C1_Idempotent == [][C1_Step]_vars

\* A second call for a column whose chunks were remeshed and one of whose
\* cells was overwritten since the first call.
C1_Witness ==
    /\ last.op = "generateChunk"
    /\ last.result = 1
    /\ dirtyChunks = <<>>
    /\ chunks # EmptyWorld.chunks

\* ------------------------------------------------------------------------
\* C5: bounded remeshing
\* ------------------------------------------------------------------------

\* The number of chunks a budget of m allows out of d dirty ones.
Allowed(m, d) == IF m = Infinity THEN d ELSE Min(m, d)

SeqSet(q) == {q[i] : i \in 1..Len(q)}

\* C5: a buildChunks(maxChunks) call that finds d dirty chunks remeshes
\* exactly min(maxChunks, d) of them (maxChunks may be 0); the remeshed
\* chunks leave the dirty set with their flag cleared, and the others stay
\* in the dirty set with their flag set.
C5_Step ==
    last'.op = "buildChunks" =>
        /\ Len(remeshed') = Allowed(last'.args[1], Len(dirtyChunks))
        /\ Cardinality(SeqSet(remeshed')) = Len(remeshed')
        /\ SeqSet(remeshed') \subseteq SeqSet(dirtyChunks)
        /\ SeqSet(dirtyChunks') = SeqSet(dirtyChunks) \ SeqSet(remeshed')
        /\ \A k \in SeqSet(dirtyChunks) :
               chunks'[k].isDirty = (k \notin SeqSet(remeshed'))

C5_BoundedRemesh == [][C5_Step]_vars

\* ------------------------------------------------------------------------
\* C7: out-of-vertical-bound access
\* ------------------------------------------------------------------------

\* C7: for y < 0 or y >= 256, whatever x and z, get returns 0 and set leaves
\* the store unchanged: no chunk created or modified, nothing marked dirty.
C7_Step ==
    /\ (last'.op = "get" /\ (last'.args[2] < 0 \/ last'.args[2] >= 256))
           => last'.result = 0
    /\ (last'.op = "set" /\ (last'.args[2] < 0 \/ last'.args[2] >= 256))
           => UNCHANGED storeVars

C7_OutOfBounds == [][C7_Step]_vars

\* A get just above the top of a world that holds chunks, some dirty.
C7_Witness ==
    /\ last.op = "get"
    /\ last.args[2] = 256
    /\ chunks # EmptyWorld.chunks
    /\ dirtyChunks # <<>>

\* ------------------------------------------------------------------------
\* SpecPRNG: mulberry32 closures, drawn from in any interleaving
\* ------------------------------------------------------------------------

\* Streams 1 and 2 are created from the same seed, stream 3 from any seed.
StreamIds == 1..3
\* Seeds, as 32-bit words: 0, 12345 and 2^32 - 1.
PrngSeeds == { <<0, 0>>, <<0, 12345>>, <<65535, 65535>> }

NewStream(seed) == [seed |-> seed, out |-> <<>>]

InitPRNG ==
    /\ InitStore
    /\ generator = GeneratorA
    /\ \E a \in PrngSeeds, b \in PrngSeeds :
          /\ streams = [i \in StreamIds |->
                           mulberry32(IF i = 3 THEN b ELSE a)]
          /\ draws = [i \in StreamIds |-> NewStream(IF i = 3 THEN b ELSE a)]

\* One call rand() of stream i, sharing its captured seed with all streams.
DrawShared(i) ==
    /\ Len(draws[i].out) < MaxDraws
    /\ streams' = [j \in StreamIds |-> mulberry32Next(streams[i]).state]
    /\ draws' = [draws EXCEPT ![i].out = Append(@, mulberry32Next(streams[i]).out)]
    /\ UNCHANGED << chunks, dirtyChunks, generatedColumns, remeshed, generator,
                    last, ops >>

\* One call rand() of stream i: its captured seed advances, its value is
\* returned.
Draw(i) ==
    /\ Len(draws[i].out) < MaxDraws
    /\ streams' = [streams EXCEPT ![i] = mulberry32Next(streams[i]).state]
    /\ draws' = [draws EXCEPT ![i].out = Append(@, mulberry32Next(streams[i]).out)]
    /\ UNCHANGED << chunks, dirtyChunks, generatedColumns, remeshed, generator,
                    last, ops >>

NextPRNG == \E i \in StreamIds : Draw(i)

SpecPRNG == InitPRNG /\ [][NextPRNG]_vars

\* ------------------------------------------------------------------------
\* C10: PRNG restartability and stream independence
\* ------------------------------------------------------------------------

\* The captured seed after n draws from a stream created with seed word s.
SeedAfter(s, n) == Add32(s, Imul32(ToWord(n), ToWord(1831565813)))

\* A returned value is a numerator over 2^32, so it is in [0, 1) exactly
\* when the numerator is in 0 .. 2^32 - 1.
InUnitInterval(v) == v[1] \in 0..65535 /\ v[2] \in 0..65535

\* C10: two streams created from the same seed have returned identical
\* values draw for draw, however their draws were interleaved with each
\* other's and with a third stream's; a stream's state depends only on its
\* own seed and its own number of draws (a draw on another stream never
\* changes it); every value drawn is in [0, 1).
C10_Streams ==
    /\ \A i \in DOMAIN draws, j \in DOMAIN draws :
          draws[i].seed = draws[j].seed =>
              \A k \in 1..Min(Len(draws[i].out), Len(draws[j].out)) :
                  draws[i].out[k] = draws[j].out[k]
    /\ \A i \in DOMAIN draws :
          /\ streams[i] = SeedAfter(draws[i].seed, Len(draws[i].out))
          /\ \A k \in 1..Len(draws[i].out) : InUnitInterval(draws[i].out[k])

\* The two streams of one seed have each been drawn from more than once, the
\* third stream, of another seed, a different number of times.
C10_Witness ==
    /\ DOMAIN draws = StreamIds
    /\ Len(draws[1].out) >= 2
    /\ Len(draws[2].out) >= 2
    /\ Len(draws[3].out) = 1
    /\ draws[3].seed # draws[1].seed
    /\ draws[1].out[1] # draws[1].out[2]

\* ------------------------------------------------------------------------
\* SpecCoord: set and get over coordinates around the chunk boundaries
\* ------------------------------------------------------------------------

EdgeCoords == { -65, -64, -33, -32, -31, -1, 0, 1, 31, 32, 33, 63, 64 }
EdgeHeights == { 0, 31, 32, 224, 255 }

CoordCells ==
    {<<x, 0, 0>> : x \in EdgeCoords} \cup {<<0, 0, z>> : z \in EdgeCoords}
        \cup {<<0, y, 0>> : y \in EdgeHeights}
        \cup { <<-1, 255, -1>>, <<-33, 32, 31>>, <<32, 31, -32>> }

InitCoord ==
    /\ InitStore
    /\ NoStreams
    /\ generator = GeneratorA

NextCoord ==
    \/ \E c \in CoordCells : ops < MaxSets /\ Set(c[1], c[2], c[3], 7)
    \/ \E c \in CoordCells : ops < MaxSets /\ Get(c[1], c[2], c[3])

SpecCoord == InitCoord /\ [][NextCoord]_vars

\* ------------------------------------------------------------------------
\* C8: coordinate resolution
\* ------------------------------------------------------------------------

\* The one chunk coordinate c with 0 <= w - 32 * c < 32.
ChunkOf(w) == CHOOSE c \in -4..8 : w - 32 * c \in 0..31

CellChunk(x, y, z) == <<ChunkOf(x), ChunkOf(y), ChunkOf(z)>>

CellIndex(x, y, z) ==
    ((x - 32 * ChunkOf(x)) * 32 + (y - 32 * ChunkOf(y))) * 32
        + (z - 32 * ChunkOf(z))

BlocksAt(store, k) == IF k \in DOMAIN store THEN store[k].blocks ELSE EmptyBlocks

\* C8: with c the chunk coordinate and l the local coordinate that set and
\* get compute for a world coordinate w (negative, zero or positive),
\* c * 32 + l = w and 0 <= l < 32 on every axis: a set stores its block in
\* the chunk and at the local cell so determined, a get reads that cell, and
\* the set changes no other cell of any chunk (distinct world coordinates
\* never share a cell); every stored cell has local coordinates in 0..31.
C8_Step ==
    /\ last'.op = "set" =>
          /\ CellChunk(last'.args[1], last'.args[2], last'.args[3])
                 \in DOMAIN chunks'
          /\ \A k \in DOMAIN chunks' :
                /\ DOMAIN chunks'[k].blocks \subseteq 0..(32 * 32 * 32 - 1)
                /\ \A j \in DOMAIN chunks'[k].blocks \cup DOMAIN BlocksAt(chunks, k) :
                      ReadBlocks(chunks'[k].blocks, j) =
                          IF /\ k = CellChunk(last'.args[1], last'.args[2], last'.args[3])
                             /\ j = CellIndex(last'.args[1], last'.args[2], last'.args[3])
                          THEN last'.args[4]
                          ELSE ReadBlocks(BlocksAt(chunks, k), j)
          /\ get(WorldAfter, last'.args[1], last'.args[2], last'.args[3])
                 = last'.args[4]
    /\ last'.op = "get" =>
          last'.result =
              ReadBlocks(BlocksAt(chunks, CellChunk(last'.args[1], last'.args[2],
                                                    last'.args[3])),
                         CellIndex(last'.args[1], last'.args[2], last'.args[3]))

C8_Resolution == [][C8_Step]_vars

\* A get has read back the block stored at a negative coordinate that is
\* not a multiple of 32, from a world holding it in the chunk at -1.
C8_Witness ==
    /\ last.op = "get"
    /\ last.args = <<-1, 255, -1>>
    /\ last.result = 7
    /\ DOMAIN chunks = { <<-1, 7, -1>> }
    /\ DOMAIN chunks[<<-1, 7, -1>>].blocks = { 32 * 32 * 32 - 1 }

\* ------------------------------------------------------------------------
\* SpecTerrain: one generateChunk on a fresh world, empty structure catalog
\* ------------------------------------------------------------------------

\* Surface heights around every boundary of the layering rule: the bottom,
\* the depth of the sub-surface band, the chunk layers at 32 and 64, the
\* beach limit seaLevel + 2 and the top of the world.
TerrainSurfaces == { 0, 1, 2, 4, 5, 6, 31, 32, 33, 63, 64, 65, 69, 70, 254, 255 }
TerrainBases == { -1, 0, 2 }
TerrainSeaLevels == { 3, 62 }
TerrainColumns == { <<0, 0>>, <<-1, 2>> }

\* The cell at local (5, 7) of each column has its own surface; every other
\* cell has the base surface.
PeakCells == { <<c[1] * 32 + 5, c[2] * 32 + 7>> : c \in TerrainColumns }

TerrainGenerator(peak, base, seaLevel) ==
    [seed |-> 12345, seaLevel |-> seaLevel, minHeight |-> -1, maxHeight |-> 255,
     structures |-> <<>>,
     noise |-> NoiseOf(base + 1, [c \in PeakCells |-> peak + 1])]

InitTerrain ==
    /\ InitStore
    /\ NoStreams
    /\ \E peak \in TerrainSurfaces, base \in TerrainBases,
          seaLevel \in TerrainSeaLevels :
            generator = TerrainGenerator(peak, base, seaLevel)

NextTerrain ==
    \E c \in TerrainColumns : ops < 1 /\ GenerateChunk(c[1], c[2])

SpecTerrain == InitTerrain /\ [][NextTerrain]_vars

\* ------------------------------------------------------------------------
\* C9: terrain layering
\* ------------------------------------------------------------------------

\* The block the layering rule puts at height Y of a cell with surface s.
Layer(Y, s, seaLevel) ==
    IF Y > s THEN 0
    ELSE IF Y = 0 THEN 19
    ELSE IF Y < s - 4 THEN 1
    ELSE IF s <= seaLevel + 2 THEN 20
    ELSE IF Y < s THEN 9
    ELSE 8

\* The cells looked at in a generated column: the peak, the four corners
\* and the peak's neighbours.
Probes(cx, cz) ==
    { <<cx * 32 + d[1], cz * 32 + d[2]>> :
        d \in { <<5, 7>>, <<0, 0>>, <<0, 31>>, <<31, 0>>, <<31, 31>>,
                <<4, 7>>, <<5, 8>> } }

\* C9: after generateChunk on a fresh world with an empty catalog, every
\* cell of the column with surface s in 0..255 reads back, at every Y in
\* 0..255: bedrock at Y = 0; stone for 0 < Y < s - 4; for s - 4 <= Y < s
\* sand when s <= seaLevel + 2 and dirt otherwise; at Y = s > 0 sand when
\* s <= seaLevel + 2 and grass otherwise; empty above s. This holds across
\* the chunk layers and whatever layers above the column's highest surface
\* were skipped.
C9_Layering ==
    last.op = "generateChunk" =>
        \A c \in Probes(last.args[1], last.args[2]) :
            getSurfaceY(generator, c[1], c[2]) \in 0..255 =>
                \A Y \in 0..255 :
                    get(World, c[1], Y, c[2])
                        = Layer(Y, getSurfaceY(generator, c[1], c[2]),
                                generator.seaLevel)

\* A column at negative x whose peak, surface 65 and not beach, spans three
\* chunk layers over a beach base, with the layers above it skipped.
C9_Witness ==
    /\ last.op = "generateChunk"
    /\ last.args = <<-1, 2>>
    /\ getSurfaceY(generator, -27, 71) = 65
    /\ getSurfaceY(generator, -32, 64) = 2
    /\ generator.seaLevel = 62
    /\ get(World, -27, 65, 71) = BLK_GRASS
    /\ get(World, -27, 64, 71) = BLK_DIRT
    /\ get(World, -27, 60, 71) = BLK_STONE
    /\ get(World, -32, 2, 64) = BLK_SAND
    /\ DOMAIN chunks = { <<-1, 0, 2>>, <<-1, 1, 2>>, <<-1, 2, 2>> }

\* ------------------------------------------------------------------------
\* SpecOrder: the first OrderCount columns of OrderColumns, generated on a
\* fresh world in every order
\* ------------------------------------------------------------------------

OrderColumns ==
    << <<2, -1>>, <<1, -1>>, <<2, -2>>, <<1, -2>>, <<3, -1>>, <<3, -2>>,
       <<2, 0>>, <<1, 0>> >>

InitOrder ==
    /\ InitStore
    /\ NoStreams
    /\ generator \in { GeneratorA, GeneratorB }

NextOrder ==
    \E i \in 1..OrderCount :
        /\ ~isColumnGenerated(World, OrderColumns[i][1], OrderColumns[i][2])
        /\ GenerateChunk(OrderColumns[i][1], OrderColumns[i][2])

SpecOrder == InitOrder /\ [][NextOrder]_vars

\* ------------------------------------------------------------------------
\* C2: generation-order independence
\* ------------------------------------------------------------------------

\* The columns of S generated on w in the order of OrderColumns, from the
\* i-th on.
RECURSIVE GenerateInOrder(_, _, _, _)
GenerateInOrder(w, g, S, i) ==
    IF i > Len(OrderColumns) THEN w
    ELSE IF OrderColumns[i] \in S
    THEN Then(LAMBDA v : GenerateInOrder(v, g, S, i + 1),
              generateChunk(w, g, OrderColumns[i][1], OrderColumns[i][2]))
    ELSE GenerateInOrder(w, g, S, i + 1)

\* The non-empty cells of a world: get returns 0 everywhere else.
BlockMap(w) ==
    LET solid == {k \in DOMAIN w.chunks : w.chunks[k].blocks # EmptyBlocks}
    IN  [k \in solid |-> w.chunks[k].blocks]

\* The cells from the ground up to the canopy over the raised cell, which
\* two columns write.
SharedCells(g) ==
    {<<c[1], y, c[2]>> : c \in DOMAIN g.noise.cells, y \in 0..7}

SameBlocks(w1, w2, cells) ==
    /\ BlockMap(w1) = BlockMap(w2)
    /\ \A c \in cells : get(w1, c[1], c[2], c[3]) = get(w2, c[1], c[2], c[3])

\* C2: on a fresh world, whatever the order in which a set of columns was
\* generated, every world coordinate holds the block it holds when the same
\* columns are generated in one fixed order, trees overhanging a column
\* boundary included.
C2_OrderIndependent ==
    SameBlocks(World,
               GenerateInOrder(EmptyWorld, generator, generatedColumns, 1),
               SharedCells(generator))

\* Columns (1, -1) and (2, -1) of GeneratorA generated with the overhung
\* column first: the raised ground of (1, -1) fills a cell the canopy of
\* the tree of (2, -1) would take, and the canopy's other cells in column
\* (1, -1) hold leaves.
C2_Witness ==
    /\ generator = GeneratorA
    /\ generatedColumns = { <<1, -1>>, <<2, -1>> }
    /\ last.args = <<2, -1>>
    /\ get(World, 63, 3, -32) = BLK_GRASS
    /\ get(World, 63, 4, -32) = OAK_LEAVES
    /\ get(World, 63, 3, -31) = OAK_LEAVES
    /\ get(World, 65, 3, -32) = OAK_LOG

\* ------------------------------------------------------------------------
\* SpecStream: the per-frame update, the observer moving between two places
\* ------------------------------------------------------------------------

InitStream ==
    /\ InitStore
    /\ NoStreams
    /\ generator = GeneratorA

NextStream ==
    \E p \in PlayerPositions, r \in RenderDistances, k \in Budgets :
        ops < MaxTicks /\ Update(p[1], p[2], r, k, 1)

SpecStream == InitStream /\ [][NextStream]_vars

\* The observer's column in the update call of the step taken.
ObserverColumn == <<ChunkOf(last'.args[1]), ChunkOf(last'.args[2])>>

\* Chebyshev distance between columns.
Ring(c, d) ==
    IF Abs(c[1] - d[1]) >= Abs(c[2] - d[2])
    THEN Abs(c[1] - d[1]) ELSE Abs(c[2] - d[2])

InRange(pc, renderDistance) ==
    {<<pc[1] + dx, pc[2] + dz>> :
        dx \in -renderDistance..renderDistance,
        dz \in -renderDistance..renderDistance}

\* ------------------------------------------------------------------------
\* C3: streaming budget, closest first
\* ------------------------------------------------------------------------

StreamedWithin(new, missing, pc, k) ==
    /\ new \subseteq missing
    /\ Cardinality(new) = Min(k, Cardinality(missing))
    /\ \A n \in new, u \in missing \ new : Ring(n, pc) <= Ring(u, pc)

\* C3: an update call with maxGenPerFrame = k >= 1 that finds m columns
\* within renderDistance of the observer's column not yet generated
\* generates exactly min(k, m) columns, all of them in range, and none of
\* them farther from the observer's column than an in-range column it
\* leaves ungenerated.
C3_Step ==
    (last'.op = "update" /\ last'.args[4] >= 1) =>
        StreamedWithin(generatedColumns' \ generatedColumns,
                       InRange(ObserverColumn, last'.args[3]) \ generatedColumns,
                       ObserverColumn, last'.args[4])

C3_ClosestFirst == [][C3_Step]_vars

\* The observer's own column was generated by an earlier call; this call,
\* with budget 2 and eight ring-1 columns missing, generated two of them.
C3_Witness ==
    /\ last.op = "update"
    /\ last.args = <<70, -20, 1, 2, 1>>
    /\ generatedColumns = { <<2, -1>>, <<1, -2>>, <<1, -1>> }

\* ------------------------------------------------------------------------
\* C4: per-call generation bound
\* ------------------------------------------------------------------------

\* C4: for every maxGenPerFrame >= 0, 0 included, one update call adds at
\* most maxGenPerFrame columns to the generated-column set.
C4_Step ==
    last'.op = "update" =>
        Cardinality(generatedColumns' \ generatedColumns) <= last'.args[4]

C4_GenerationBound == [][C4_Step]_vars

\* ------------------------------------------------------------------------
\* C6: unload hysteresis
\* ------------------------------------------------------------------------

\* The chunks of `store` within `limit` columns of the observer's column.
Near(store, pc, limit) ==
    {k \in DOMAIN store : Ring(<<store[k].x, store[k].z>>, pc) <= limit}

\* The chunks of `before` farther than `limit` are gone, the others are
\* still loaded with the blocks they have in `before`, and no loaded chunk
\* is farther than `limit`.
Unloaded(before, pc, limit) ==
    /\ \A k \in DOMAIN before :
          IF k \in Near(before, pc, limit)
          THEN k \in DOMAIN chunks' /\ chunks'[k].blocks = before[k].blocks
          ELSE k \notin DOMAIN chunks'
    /\ Near(chunks', pc, limit) = DOMAIN chunks'

\* C6 as stated: update removes exactly the loaded chunks farther than
\* renderDistance + 3 from the observer's column; every other loaded chunk
\* is retained with the blocks it had when update was called; afterwards no
\* loaded chunk is farther than renderDistance + 3.
C6_Step ==
    last'.op = "update" => Unloaded(chunks, ObserverColumn, last'.args[3] + 3)

C6_RetainedUntouched == [][C6_Step]_vars

\* The chunks of `before` farther than `limit` are gone, and the loaded
\* chunks are exactly the others, each with the blocks it has in `before`.
UnloadedExactly(before, pc, limit) ==
    /\ DOMAIN chunks' = Near(before, pc, limit)
    /\ \A k \in DOMAIN chunks' : chunks'[k].blocks = before[k].blocks

\* C6, amended: update removes exactly the chunks, loaded before the call
\* or created by its generation step, farther than renderDistance + 3 from
\* the observer's column; every other chunk is retained with the blocks the
\* call's generation step left in it (unloading and remeshing change no
\* block), and no loaded chunk lies beyond renderDistance + 3 afterwards.
C6_AmendedStep ==
    last'.op = "update" =>
        Then(LAMBDA generated :
                UnloadedExactly(generated, ObserverColumn, last'.args[3] + 3),
             updateGenerate(World, generator, ObserverColumn[1],
                            ObserverColumn[2], last'.args[3],
                            last'.args[4]).chunks)

C6_Hysteresis == [][C6_AmendedStep]_vars

\* The observer has moved four columns east with renderDistance 1: the
\* chunks of column 2, at distance 4 = renderDistance + 3, are still
\* loaded; those the tree of column (2, -1) had created in column 1, at
\* distance 5, are gone.
C6_Witness ==
    /\ last.op = "update"
    /\ last.args[1] = 200
    /\ last.args[3] = 1
    /\ <<2, -1>> \in generatedColumns
    /\ <<2, 0, -1>> \in DOMAIN chunks
    /\ <<2, 0, -2>> \in DOMAIN chunks
    /\ <<1, 0, -1>> \notin DOMAIN chunks
    /\ <<1, 0, -2>> \notin DOMAIN chunks

\* ------------------------------------------------------------------------
\* ValueNoise. Coordinates are exact fractions: a position is an integer
\* count of 1/Q steps, and every value is a numerator over a denominator.
\* ------------------------------------------------------------------------

\* fade(t) for t = a / Q, as a numerator over Q^5.
fade(a, Q) == a * a * a * (a * (6 * a - 15 * Q) + 10 * Q * Q)

\* lerp(a, b, t) for t = tn / td, as a numerator over td times the
\* denominator of a and b.
lerp(a, b, tn, td) == a * td + tn * (b - a)

\* A shuffle that draws every j from the whole table: rand() * 256.
RECURSIVE shuffleLoopWhole(_, _, _)
shuffleLoopWhole(st, hi, lo) ==
    IF hi < lo THEN st
    ELSE IF hi = lo
    THEN Then(LAMBDA r :
                [p |-> [st.p EXCEPT ![hi] = st.p[FloorScale(r.out, 256)],
                                    ![FloorScale(r.out, 256)] = st.p[hi]],
                 rand |-> r.state],
              mulberry32Next(st.rand))
    ELSE Then(LAMBDA v : shuffleLoopWhole(v, ((hi + lo) \div 2), lo),
              shuffleLoopWhole(st, hi, ((hi + lo) \div 2) + 1))

\* The Fisher-Yates loop for i = hi down to lo: st is [p, rand], p indexed
\* from 0. (The range is walked by halves; the swaps happen in loop order.)
RECURSIVE shuffleLoop(_, _, _)
shuffleLoop(st, hi, lo) ==
    IF hi < lo THEN st
    ELSE IF hi = lo
    THEN Then(LAMBDA r :
                [p |-> [st.p EXCEPT ![hi] = st.p[FloorScale(r.out, hi + 1)],
                                    ![FloorScale(r.out, hi + 1)] = st.p[hi]],
                 rand |-> r.state],
              mulberry32Next(st.rand))
    ELSE Then(LAMBDA v : shuffleLoop(v, ((hi + lo) \div 2), lo),
              shuffleLoop(st, hi, ((hi + lo) \div 2) + 1))

\* new ValueNoise(seed).perm: the shuffled table, laid out twice.
ValueNoise(seed) ==
    Then(LAMBDA st : [i \in 0..511 |-> st.p[i % 256]],
         shuffleLoop([p |-> [i \in 0..255 |-> i], rand |-> mulberry32(ToWord(seed))],
                     255, 1))

\* sample(x, z) for x = X / Q, z = Z / Q: [num, den] with den = 255 * Q^10.
sampleAt(perm, xi, zi, u, v, F) ==
    [num |-> lerp(lerp(perm[perm[xi] + zi], perm[perm[xi + 1] + zi], u, F),
                  lerp(perm[perm[xi] + zi + 1], perm[perm[xi + 1] + zi + 1], u, F),
                  v, F),
     den |-> 255 * F * F]

sample(perm, X, Z, Q) ==
    sampleAt(perm, (X \div Q) % 256, (Z \div Q) % 256,
             fade(X % Q, Q), fade(Z % Q, Q), Q * Q * Q * Q * Q)

\* The loop of octave for the octaves still to do. st is [value, maxValue,
\* amplitude, X, Z]: value is a numerator over den times the denominator
\* of maxValue and amplitude, which grows by pd each round and cancels in
\* value / maxValue; X, Z are x * frequency, z * frequency.
RECURSIVE octaveLoop(_, _, _, _, _, _)
octaveLoop(perm, st, Q, pn, pd, todo) ==
    IF todo = 0 THEN st
    ELSE octaveLoop(perm,
                    [value |-> (st.value + sample(perm, st.X, st.Z, Q).num
                                              * st.amplitude) * pd,
                     maxValue |-> (st.maxValue + st.amplitude) * pd,
                     amplitude |-> st.amplitude * pn,
                     X |-> st.X * 2, Z |-> st.Z * 2],
                    Q, pn, pd, todo - 1)

\* octave(x, z, octaves, persistence, scale) for persistence = pn / pd and
\* x * scale = X / Q, z * scale = Z / Q: value / maxValue as [num, den],
\* which is 0 / 0 (NaN) when no octave ran.
noiseOctave(perm, X, Z, Q, octaves, pn, pd) ==
    Then(LAMBDA st : [num |-> st.value,
                      den |-> 255 * Q * Q * Q * Q * Q * Q * Q * Q * Q * Q
                                  * st.maxValue],
         octaveLoop(perm, [value |-> 0, maxValue |-> 0, amplitude |-> 1,
                           X |-> X, Z |-> Z], Q, pn, pd, octaves))

\* ------------------------------------------------------------------------
\* SpecNoise: one call of sample, octave or getSurfaceY on a generator
\* ------------------------------------------------------------------------

NoiseSeeds == { 7, 12345 }
NoiseGrids == { 2, 3 }
NoiseCoords == { -7, -1, 0, 1, 4, 511, 1535 }
HeightRanges == { <<48, 96>>, <<-1, 255>>, <<10, 10>> }
NoiseValues == { 0, 1, 128, 255, 256 }
Persistences == { <<0, 1>>, <<1, 2>>, <<1, 1>> }

\* A generator whose noise carries the permutation table built from its
\* seed; cell (0, 0) has the noise value n / 256, every other cell 0.
NoiseGenerator(seed, perm, range, n) ==
    [seed |-> seed, seaLevel |-> 62, minHeight |-> range[1],
     maxHeight |-> range[2], structures |-> DefaultStructures,
     noise |-> [den |-> 256, base |-> 0, cells |-> (<<0, 0>> :> n),
                perm |-> perm]]

InitNoise ==
    /\ InitStore
    /\ NoStreams
    /\ \E seed \in NoiseSeeds :
          \E perm \in { ValueNoise(seed) } :
              \E range \in HeightRanges, n \in NoiseValues :
                  generator = NoiseGenerator(seed, perm, range, n)

Pure(op, args, result) ==
    /\ ops < 1
    /\ UNCHANGED << storeVars, remeshed >>
    /\ Step(op, args, result)

Sample(X, Z, Q) ==
    Pure("sample", <<X, Z, Q>>, sample(generator.noise.perm, X, Z, Q))

Octave(X, Z, Q, octaves, persistence) ==
    Pure("octave", <<X, Z, Q, octaves, persistence>>,
         noiseOctave(generator.noise.perm, X, Z, Q, octaves,
                     persistence[1], persistence[2]))

GetSurfaceY(wx, wz) ==
    Pure("getSurfaceY", <<wx, wz>>, getSurfaceY(generator, wx, wz))

NextNoise ==
    \/ \E X \in NoiseCoords, Z \in NoiseCoords, Q \in NoiseGrids :
          Sample(X, Z, Q)
    \/ \E X \in NoiseCoords, Z \in { -1, 4 }, Q \in NoiseGrids,
          n \in 0..MaxOctaves, p \in Persistences : Octave(X, Z, Q, n, p)
    \/ \E c \in { <<0, 0>>, <<-3, 9>> } : GetSurfaceY(c[1], c[2])

SpecNoise == InitNoise /\ [][NextNoise]_vars

\* ------------------------------------------------------------------------
\* C11: noise boundedness
\* ------------------------------------------------------------------------

\* A value [num, den] that is a number in [0, 1] (0 / 0 is not a number).
InUnit(r) == r.den > 0 /\ 0 <= r.num /\ r.num <= r.den

\* C11: sample returns a value in [0, 1]; octave returns a value in [0, 1]
\* for every octave count, 0 included, and every persistence in [0, 1];
\* getSurfaceY lies in minHeight..maxHeight when minHeight <= maxHeight, and
\* a noise value of 0.5 with minHeight 48 and maxHeight 96 gives 72.
C11_NoiseBounded ==
    /\ last.op \in { "sample", "octave" } => InUnit(last.result)
    /\ last.op = "getSurfaceY" =>
          /\ generator.minHeight <= generator.maxHeight =>
                last.result \in generator.minHeight..generator.maxHeight
          /\ ( /\ last.args = <<0, 0>>
               /\ generator.noise.cells[<<0, 0>>] = 128
               /\ generator.minHeight = 48
               /\ generator.maxHeight = 96 ) => last.result = 72

\* ------------------------------------------------------------------------
\* SpecSettle: the frame loop calling update with one observer position and
\* one set of budgets, frame after frame
\* ------------------------------------------------------------------------

\* The arguments of every frame's call are those chosen at the start.
InitSettle ==
    /\ chunks = EmptyWorld.chunks
    /\ dirtyChunks = <<>>
    /\ generatedColumns = {}
    /\ remeshed = <<>>
    /\ ops = 0
    /\ NoStreams
    /\ generator = GeneratorA
    /\ \E p \in PlayerPositions, r \in RenderDistances,
          k \in Budgets \ {0}, b \in Budgets \ {0} :
            last = Call("new", <<p[1], p[2], r, k, b>>, 0)

\* The renderer's frame counter, kept modulo FrameClock.
Frame == ops' = (ops + 1) % FrameClock

\* One frame: the render callback calls update.
Tick ==
    /\ Install(update(World, last.args[1], last.args[2], generator,
                      last.args[3], last.args[4], last.args[5]))
    /\ last' = Call("update", last.args, 0)
    /\ Frame
    /\ UNCHANGED << generator, streams, draws >>

NextSettle == Tick

\* The frame loop keeps running (requestAnimationFrame): the counter keeps
\* advancing, and in NextSettle only Tick advances it.
SpecSettle == InitSettle /\ [][NextSettle]_vars /\ WF_ops(Frame)

\* ------------------------------------------------------------------------
\* C12: deferred work completes
\* ------------------------------------------------------------------------

\* Every column within renderDistance of the observer is generated and no
\* chunk is dirty.
Settled ==
    /\ InRange(<<ChunkOf(last.args[1]), ChunkOf(last.args[2])>>, last.args[3])
           \subseteq generatedColumns
    /\ dirtyChunks = <<>>

\* C12: from a fresh world, with the observer's position fixed,
\* renderDistance >= 0 and both budgets >= 1, the repeated update calls
\* reach a state in which every column in range is generated and the dirty
\* set is empty, and from then on update calls leave the store unchanged.
C12_Completes ==
    /\ <>[]Settled
    /\ [][Settled => (Settled' /\ UNCHANGED storeVars)]_vars

\* All nine columns around the observer are generated and every chunk has
\* been remeshed, with one generation per frame.
C12_Witness ==
    /\ last.op = "update"
    /\ last.args[3] = 1
    /\ last.args[4] = 1
    /\ Cardinality(generatedColumns) = 9
    /\ Cardinality(DOMAIN chunks) > 9
    /\ dirtyChunks = <<>>
    /\ remeshed = <<>>

\* ------------------------------------------------------------------------
\* C13: write then read
\* ------------------------------------------------------------------------

\* What cell j of chunk k holds in a store (0 where the chunk is absent).
CellOf(store, k, j) == ReadBlocks(BlocksAt(store, k), j)

\* C13: after set(x, y, z, b) with 0 <= y < HEIGHT the owning chunk
\* (floor(x/32), floor(y/32), floor(z/32)) is in the store, created if it
\* was absent and the only chunk created; get(x, y, z) returns b; the
\* chunk's dirty flag is set and the chunk is in the dirty set; no other
\* cell of any chunk has changed.
C13_Step ==
    (last'.op = "set" /\ last'.args[2] >= 0 /\ last'.args[2] < 256) =>
        LET x == last'.args[1]
            y == last'.args[2]
            z == last'.args[3]
            own == CellChunk(x, y, z)
        IN  /\ DOMAIN chunks' = DOMAIN chunks \cup {own}
            /\ get(WorldAfter, x, y, z) = last'.args[4]
            /\ chunks'[own].isDirty
            /\ InSeq(dirtyChunks', own)
            /\ \A k \in DOMAIN chunks' :
                  \A j \in DOMAIN chunks'[k].blocks \cup DOMAIN BlocksAt(chunks, k) :
                      (k # own \/ j # CellIndex(x, y, z))
                          => CellOf(chunks', k, j) = CellOf(chunks, k, j)

C13_WriteThenRead == [][C13_Step]_vars

\* A set at the top of a generated and fully remeshed column has created
\* the chunk at layer 7 and made it the only dirty chunk.
C13_Witness ==
    /\ last.op = "set"
    /\ last.args = <<70, 255, -20, 7>>
    /\ <<2, 0, -1>> \in DOMAIN chunks
    /\ ~chunks[<<2, 0, -1>>].isDirty
    /\ get(World, 70, 255, -20) = 7
    /\ dirtyChunks = << <<2, 7, -1>> >>

\* ------------------------------------------------------------------------
\* SpecPhase: one generateChunk call, statement by statement
\* ------------------------------------------------------------------------

\* Lines 177-185: the heightmap of the column.
heightmapOf(g, chunkX, chunkZ) ==
    [i \in 0..(cs * cs - 1) |->
        getSurfaceY(g, chunkX * cs + (i \div cs), chunkZ * cs + (i % cs))]

\* Lines 188-225: the terrain loop over the column's layers.
terrainPhase(w, g, chunkX, chunkZ) ==
    LET heights == heightmapOf(g, chunkX, chunkZ)
    IN  terrainLoop(w, heights,
                    SetMax({heights[i] : i \in 0..(cs * cs - 1)}, 0),
                    g.seaLevel, chunkX, chunkZ, 0)

\* Lines 228-242: the structure loop, with the chunk's own stream.
structurePhase(w, g, chunkX, chunkZ) ==
    structuresLoop([world |-> w,
                    rand |-> mulberry32(hashCoords(g.seed, chunkX, chunkZ))],
                   g, heightmapOf(g, chunkX, chunkZ),
                   chunkX * cs, chunkZ * cs, 1).world

\* The columns generated, in this order, before the call.
PhasePriors == { <<>>, << <<1, -1>> >>, << <<2, -1>> >>, << <<2, -2>> >>,
                 << <<1, -2>> >> }

RECURSIVE GenerateAll(_, _, _)
GenerateAll(w, g, columns) ==
    IF columns = <<>> THEN w
    ELSE Then(LAMBDA v : GenerateAll(v, g, Tail(columns)),
              generateChunk(w, g, Head(columns)[1], Head(columns)[2]))

\* A world that holds the prior columns, and a call about to be made.
InitPhase ==
    /\ NoStreams
    /\ ops = 0
    /\ generator \in {GeneratorA, GeneratorB}
    /\ \E c \in GenColumns, prior \in PhasePriors :
          /\ last = Call("call", <<c[1], c[2], prior>>, 0)
          /\ \E w \in {GenerateAll(EmptyWorld, generator, prior)} :
                /\ chunks = w.chunks
                /\ dirtyChunks = w.dirtyChunks
                /\ generatedColumns = w.generatedColumns
                /\ remeshed = <<>>

At(op) ==
    /\ last' = [last EXCEPT !.op = op]
    /\ UNCHANGED << generator, ops, streams, draws >>

\* Lines 168-169: the guard, then the flag.
Enter ==
    /\ last.op = "call"
    /\ IF isColumnGenerated(World, last.args[1], last.args[2])
       THEN Install(World) /\ At("return")
       ELSE /\ Install(markColumnGenerated(World, last.args[1], last.args[2]))
            /\ At("flagged")

Terrain ==
    /\ last.op = "flagged"
    /\ Install(terrainPhase(World, generator, last.args[1], last.args[2]))
    /\ At("terrain")

Structures ==
    /\ last.op = "terrain"
    /\ Install(structurePhase(World, generator, last.args[1], last.args[2]))
    /\ At("structures")

\* A generateChunk call on the same column made while the call is running.
Nested ==
    /\ last.op \in {"flagged", "terrain"}
    /\ ops < MaxNested
    /\ Install(generateChunk(World, generator, last.args[1], last.args[2]))
    /\ ops' = ops + 1
    /\ UNCHANGED << generator, last, streams, draws >>

NextPhase == Enter \/ Terrain \/ Structures \/ Nested

SpecPhase == InitPhase /\ [][NextPhase]_vars

\* ------------------------------------------------------------------------
\* C14: ordering inside one generateChunk call
\* ------------------------------------------------------------------------

\* The blocks that a step has written: the new content of every cell whose
\* content the step has changed.
WrittenBlocks ==
    UNION { { CellOf(chunks', k, j) :
                j \in { i \in DOMAIN chunks'[k].blocks \cup DOMAIN BlocksAt(chunks, k) :
                          CellOf(chunks', k, i) # CellOf(chunks, k, i) } } :
            k \in DOMAIN chunks' }

TerrainBlocks == { BLK_BEDROCK, BLK_STONE, BLK_DIRT, BLK_GRASS, BLK_SAND }

\* C14: the call sets the column's flag before it writes any block (the
\* step that sets it creates no chunk and writes nothing); the terrain is
\* then written with the flag set and without any structure block; the
\* structure loop that follows writes no terrain block, and with it the
\* call has done what generateChunk does; a nested generateChunk call on
\* the same column while the call is running changes nothing.
C14_Step ==
    /\ last'.op = "flagged" =>
          /\ columnKey(last.args[1], last.args[2]) \in generatedColumns'
          /\ chunks' = chunks
          /\ dirtyChunks' = dirtyChunks
    /\ last'.op = "terrain" /\ last.op = "flagged" =>
          /\ columnKey(last.args[1], last.args[2]) \in generatedColumns
          /\ WrittenBlocks \subseteq TerrainBlocks
          /\ chunkKey(last.args[1], 0, last.args[2]) \in DOMAIN chunks'
    /\ last'.op = "structures" =>
          /\ WrittenBlocks \subseteq {OAK_LOG, OAK_LEAVES}
          /\ WorldAfter =
                 generateChunk(GenerateAll(EmptyWorld, generator, last.args[3]),
                               generator, last.args[1], last.args[2])
    /\ ops' # ops => UNCHANGED storeVars

C14_Ordering == [][C14_Step]_vars

\* A nested call has been made during the call, and the structure loop has
\* then placed a tree in a column whose terrain the call had written.
C14_Witness ==
    /\ last.op = "structures"
    /\ ops = 1
    /\ LET blocks == chunks[chunkKey(last.args[1], 0, last.args[2])].blocks
       IN  /\ \E j \in DOMAIN blocks : blocks[j] = OAK_LOG
           /\ \E j \in DOMAIN blocks : blocks[j] = BLK_BEDROCK

\* ------------------------------------------------------------------------
\* SpecTrials: generateChunk over catalogs and over columns with beach cells
\* ------------------------------------------------------------------------

TrialSeeds == { 7, 12345 }

\* Catalogs of zero, one and two entries, with attempt counts from 0 to 3.
TrialCatalogs ==
    { <<>>,
      << [structure |-> "OakTree", attemptsPerChunk |-> 0] >>,
      DefaultStructures,
      << [structure |-> "OakTree", attemptsPerChunk |-> 2],
         [structure |-> "OakTree", attemptsPerChunk |-> 1] >> }

\* With sea level 0 a cell is beach unless it is raised; with -4 none is.
TrialSeaLevels == { 0, -4 }

\* The cells with an even x are raised to surface 3.
StripedCells ==
    [c \in { <<x, z>> \in (32..95) \X (-32..-1) : x % 2 = 0 } |-> 4]

TrialGenerator(seed, catalog, seaLevel) ==
    [seed |-> seed, seaLevel |-> seaLevel, minHeight |-> -1, maxHeight |-> 255,
     structures |-> catalog, noise |-> NoiseOf(0, StripedCells)]

InitTrials ==
    /\ InitStore
    /\ NoStreams
    /\ \E seed \in TrialSeeds, catalog \in TrialCatalogs, sea \in TrialSeaLevels :
          generator = TrialGenerator(seed, catalog, sea)

NextTrials == \E c \in GenColumns : ops < MaxColumns /\ GenerateChunk(c[1], c[2])

SpecTrials == InitTrials /\ [][NextTrials]_vars

\* ------------------------------------------------------------------------
\* C15: structure trials
\* ------------------------------------------------------------------------

\* The world cells that hold block b.
CellsHolding(store, b) ==
    UNION { { << k[1] * 32 + (j \div 1024), k[2] * 32 + ((j \div 32) % 32),
                 k[3] * 32 + (j % 32) >> :
                j \in { i \in DOMAIN store[k].blocks : store[k].blocks[i] = b } } :
            k \in DOMAIN store }

\* The trunk cells of the trees that the trials of column (cx, cz) place,
\* from catalog entry k and its trial number attempt on, the chunk's stream
\* standing at rand: a trial draws x, then z; on a cell that is not beach
\* it places a tree at (worldX, surface + 1, worldZ) whose height is the
\* stream's next draw; a beach trial draws nothing more and is not repeated.
RECURSIVE TrialTrunks(_, _, _, _, _, _)
TrialTrunks(g, cx, cz, rand, k, attempt) ==
    IF k > Len(g.structures) THEN {}
    ELSE IF attempt >= g.structures[k].attemptsPerChunk
    THEN TrialTrunks(g, cx, cz, rand, k + 1, 0)
    ELSE LET r1 == mulberry32Next(rand)
             r2 == mulberry32Next(r1.state)
             r3 == mulberry32Next(r2.state)
             x == cx * 32 + FloorScale(r1.out, 32)
             z == cz * 32 + FloorScale(r2.out, 32)
             surface == getSurfaceY(g, x, z)
         IN  IF surface > g.seaLevel + 2
             THEN { <<x, surface + 1 + i, z>> : i \in 0..(3 + FloorScale(r3.out, 3)) }
                      \cup TrialTrunks(g, cx, cz, r3.state, k, attempt + 1)
             ELSE TrialTrunks(g, cx, cz, r2.state, k, attempt + 1)

\* C15: for each catalog entry in catalog order generateChunk makes exactly
\* attemptsPerChunk trials; each draws a local x, then a local z, in 0..31
\* from the chunk's stream and calls the structure's generate at
\* (worldX, surface + 1, worldZ) with that stream exactly when the cell is
\* not beach (surface > seaLevel + 2); a beach trial places nothing and is
\* not repeated. The trunks in the world after the call are therefore those
\* of these trials, added to the trunks that were there.
C15_Step ==
    (last'.op = "generateChunk" /\ last'.result = 0) =>
        CellsHolding(chunks', OAK_LOG) =
            CellsHolding(chunks, OAK_LOG)
                \cup TrialTrunks(generator, last'.args[1], last'.args[2],
                                 mulberry32(hashCoords(generator.seed, last'.args[1],
                                                       last'.args[2])), 1, 0)

C15_Trials == [][C15_Step]_vars

\* Three trials of the default catalog in a column with beach cells: at
\* least one was a beach trial and at least one placed a tree.
C15_Witness ==
    /\ last.op = "generateChunk"
    /\ last.result = 0
    /\ generator.structures = DefaultStructures
    /\ generator.seaLevel = 0
    /\ Cardinality({ <<c[1], c[3]>> : c \in CellsHolding(chunks, OAK_LOG) }) \in 1..2

\* ------------------------------------------------------------------------
\* C16: per-chunk placement determinism
\* ------------------------------------------------------------------------

\* C16: the placements generateChunk makes for a column (the origin of each
\* tree and the trunk height it draws) are the same whichever columns were
\* generated before and whatever the store held: the trunks a call adds to
\* the world are the trunks the same call makes on an empty store.
C16_Step ==
    (last'.op = "generateChunk" /\ last'.result = 0) =>
        Then(LAMBDA column :
                CellsHolding(chunks', OAK_LOG) =
                    CellsHolding(chunks, OAK_LOG)
                        \cup CellsHolding(generateChunk(EmptyWorld, generator, column[1],
                                                        column[2]).chunks, OAK_LOG),
             last'.args)

C16_PlacementDeterminism == [][C16_Step]_vars

\* Column (2, -2) generated last of four: its third tree stands at local
\* (1, 31), among the canopies and trunks the other columns have placed.
C16_Witness ==
    /\ generator = GeneratorB
    /\ last.args = <<2, -2>>
    /\ last.result = 0
    /\ Cardinality(generatedColumns) = 4
    /\ get(World, 65, 0, -33) = OAK_LOG
    /\ Cardinality(CellsHolding(chunks, OAK_LOG)) > 12

\* ------------------------------------------------------------------------
\* SpecTree: OakTree.generate on worlds that already hold blocks
\* ------------------------------------------------------------------------

\* Streams whose first draw gives the trunk heights 4, 5 and 6.
TreeSeeds == { 7, 1, 2 }

TreeOrigin == <<0, 1, 0>>

\* Cells on the trunk of a tree at TreeOrigin, in its rings and at its cap.
TreeCells ==
    { <<0, 2, 0>>, <<0, 7, 0>>, <<0, 8, 0>>, <<0, 9, 0>>, <<1, 5, 0>>,
      <<-2, 5, 0>>, <<-1, 6, -1>> }

InitTree ==
    /\ InitStore
    /\ NoStreams
    /\ generator = GeneratorA

\* result: the trunk height the tree has drawn.
Grow(x, y, z, seed) ==
    /\ Install(OakTree_generate(World, x, y, z, mulberry32(ToWord(seed))).world)
    /\ Step("OakTree.generate", <<x, y, z, seed>>,
            4 + FloorScale(mulberry32Next(mulberry32(ToWord(seed))).out, 3))

NextTree ==
    \/ \E c \in TreeCells :
          /\ ops < MaxSets
          /\ last.op # "OakTree.generate"
          /\ Set(c[1], c[2], c[3], 7)
    \/ \E seed \in TreeSeeds :
          /\ last.op # "OakTree.generate"
          /\ Grow(TreeOrigin[1], TreeOrigin[2], TreeOrigin[3], seed)

SpecTree == InitTree /\ [][NextTree]_vars

\* ------------------------------------------------------------------------
\* C17: the oak canopy only fills empty space
\* ------------------------------------------------------------------------

\* C17: whatever the world holds, OakTree.generate writes leaves (in the
\* rings and at the cap) only into cells that are empty: every cell that
\* held a block before the call and is not a cell of the trunk holds the
\* same block after it.
C17_Step ==
    last'.op = "OakTree.generate" =>
        \A c \in CellsHolding(chunks, 7) :
            \/ /\ c[1] = last'.args[1]
               /\ c[3] = last'.args[3]
               /\ c[2] \in last'.args[2]..(last'.args[2] + last'.result - 1)
            \/ get(WorldAfter, c[1], c[2], c[3]) = 7

C17_CanopyFillsEmpty == [][C17_Step]_vars

\* ------------------------------------------------------------------------
\* C18: dirty-set consistency
\* ------------------------------------------------------------------------

\* C18: after any sequence of set, generateChunk, buildChunks, update and
\* clear calls every chunk in the dirty set is in the chunk map, a loaded
\* chunk's dirty flag is set exactly when the chunk is in the dirty set, and
\* the chunks a call has remeshed are loaded.
C18_DirtyConsistent ==
    /\ \A i \in 1..Len(dirtyChunks) : dirtyChunks[i] \in DOMAIN chunks
    /\ \A k \in DOMAIN chunks : chunks[k].isDirty <=> InSeq(dirtyChunks, k)
    /\ \A i \in 1..Len(remeshed) : remeshed[i] \in DOMAIN chunks

\* The observer has moved four columns between two updates: the second has
\* unloaded the chunks around the first column, of which the first had
\* remeshed only one, and has remeshed a chunk of the new column.
C18_Witness ==
    /\ last.op = "update"
    /\ last.args[1] = 200
    /\ generatedColumns = { <<2, -1>>, <<6, -1>> }
    /\ DOMAIN chunks # {}
    /\ \A k \in DOMAIN chunks : k[1] >= 5
    /\ Len(remeshed) = 1
    /\ ops = 2

\* ------------------------------------------------------------------------
\* SpecReturn: the per-frame update over ground at height 0, the observer
\* moving away and back
\* ------------------------------------------------------------------------

\* Every cell's surface is 0 or above: every column has bedrock at y = 0.
GroundGenerator ==
    [seed |-> 7, seaLevel |-> -4, minHeight |-> -1, maxHeight |-> 255,
     structures |-> DefaultStructures, noise |-> NoiseOf(1, <<63, -32>> :> 4)]

InitReturn ==
    /\ InitStore
    /\ NoStreams
    /\ generator = GroundGenerator

NextReturn ==
    \E p \in PlayerPositions, r \in RenderDistances, b \in Budgets \ {0} :
        ops < MaxTicks /\ Update(p[1], p[2], r, 1, b)

SpecReturn == InitReturn /\ [][NextReturn]_vars

\* ------------------------------------------------------------------------
\* C19: terrain is present around the observer after returning
\* ------------------------------------------------------------------------

\* One more update call like the last one would leave the store as it is.
Stable ==
    Then(LAMBDA w : /\ w.chunks = chunks
                    /\ w.dirtyChunks = dirtyChunks
                    /\ w.generatedColumns = generatedColumns,
         update(World, last.args[1], last.args[2], generator, last.args[3],
                last.args[4], last.args[5]))

TerrainLoaded(column) ==
    \A lx \in 0..31, lz \in 0..31 :
        get(World, column[1] * 32 + lx, 0, column[2] * 32 + lz) = BLK_BEDROCK

\* C19: after any sequence of update calls, the observer moving away and
\* back included, once update calls at the observer's position no longer
\* change the store, every column within renderDistance of the observer has
\* its terrain loaded: get returns bedrock at y = 0 for each of its cells.
C19_TerrainAfterReturn ==
    (last.op = "update" /\ Stable) =>
        \A column \in InRange(<<ChunkOf(last.args[1]), ChunkOf(last.args[2])>>,
                              last.args[3]) :
            TerrainLoaded(column)

\* ------------------------------------------------------------------------
\* C20: no load/unload thrash within a call
\* ------------------------------------------------------------------------

\* The chunks that a store holds and that the current store does not hold,
\* or holds with another content.
Touched(store) ==
    {k \in DOMAIN store : k \notin DOMAIN chunks \/ store[k] # chunks[k]}

\* C20: with the default catalog, every chunk that the generation step of
\* an update call creates or modifies is in a column within Chebyshev
\* distance 1 of a column the call generates, and none of these chunks is
\* unloaded by the unload step of the same call, for renderDistance 0 and 1.
C20_Step ==
    last'.op = "update" =>
        Then(LAMBDA a :
                Then(LAMBDA generated :
                        \A k \in Touched(generated) :
                            /\ \E c \in generatedColumns' \ generatedColumns :
                                  Ring(<<k[1], k[3]>>, c) <= 1
                            /\ k \in DOMAIN chunks',
                     updateGenerate(World, generator, ChunkOf(a[1]), ChunkOf(a[2]),
                                    a[3], a[4]).chunks),
             last'.args)

C20_NoThrash == [][C20_Step]_vars

\* Back from four columns away: the call has generated column (2, -1), whose
\* first tree overhangs three columns that are not generated, has kept the
\* chunks of those columns, and has unloaded the chunk of column (6, -1).
C20_Witness ==
    /\ last.op = "update"
    /\ last.args[1] = 70
    /\ last.args[3] = 0
    /\ ops = 2
    /\ generatedColumns = { <<2, -1>>, <<6, -1>> }
    /\ { <<1, 0, -1>>, <<2, 0, -2>>, <<1, 0, -2>> } \subseteq DOMAIN chunks
    /\ \A k \in DOMAIN chunks : k[1] <= 2

\* ------------------------------------------------------------------------
\* C21: reads never mutate
\* ------------------------------------------------------------------------

\* C21: get(x, y, z) returns 0 when the chunk owning the coordinate is
\* absent, and for every argument it leaves the chunk map, every block, the
\* dirty set and the generated columns as they were: a read creates no
\* chunk.
C21_Step ==
    last'.op = "get" =>
        /\ chunks' = chunks
        /\ dirtyChunks' = dirtyChunks
        /\ generatedColumns' = generatedColumns
        /\ CellChunk(last'.args[1], last'.args[2], last'.args[3]) \notin DOMAIN chunks
              => last'.result = 0

C21_ReadsNeverMutate == [][C21_Step]_vars

\* A read at the top of a generated column: the layer of chunks at 7 holds
\* only air and is still not allocated after the read.
C21_Witness ==
    /\ last.op = "get"
    /\ last.args = <<70, 255, -20>>
    /\ last.result = 0
    /\ <<2, -1>> \in generatedColumns
    /\ <<2, 0, -1>> \in DOMAIN chunks
    /\ <<2, 7, -1>> \notin DOMAIN chunks
    /\ dirtyChunks # <<>>

\* ------------------------------------------------------------------------
\* SpecPerm: the constructor of ValueNoise, one shuffle step at a time, and
\* the table lookups of sample
\* ------------------------------------------------------------------------

PermSeeds == { 0, 7, 12345, 2147483647 }

\* The integer cells at the corners and edges of the table.
LookupCoords == { 0, 1, 128, 254, 255 }

\* Lines 54-57: the indices sample reads perm at, the inner ones first.
cornerIndices(perm, xi, zi) ==
    << xi, xi + 1,
       perm[xi] + zi, perm[xi + 1] + zi, perm[xi] + zi + 1, perm[xi + 1] + zi + 1 >>

\* Lines 30-33: the table p holds 0..255 in order and the loop is about to
\* run for i = 255. last.args is <<seed, i>>, last.result is [p, rand].
InitPerm ==
    /\ chunks = EmptyWorld.chunks
    /\ dirtyChunks = <<>>
    /\ generatedColumns = {}
    /\ remeshed = <<>>
    /\ ops = 0
    /\ NoStreams
    /\ generator = GeneratorA
    /\ \E seed \in PermSeeds :
          last = Call("p", <<seed, 255>>,
                      [p |-> [i \in 0..255 |-> i], rand |-> mulberry32(ToWord(seed))])

Quiet == UNCHANGED << storeVars, remeshed, generator, streams, draws >>

\* Lines 35-40: one round of the shuffle loop.
Shuffle ==
    /\ last.op = "p"
    /\ last.args[2] > 0
    /\ last' = Call("p", <<last.args[1], last.args[2] - 1>>,
                    shuffleLoop(last.result, last.args[2], last.args[2]))
    /\ ops' = ops
    /\ Quiet

\* Line 41: the table laid out twice.
Fill ==
    /\ last.op = "p"
    /\ last.args[2] = 0
    /\ last' = Call("perm", <<last.args[1]>>,
                    [perm |-> [i \in 0..511 |-> last.result.p[i % 256]],
                     indices |-> <<>>])
    /\ ops' = ops
    /\ Quiet

\* Lines 46-57: sample in the integer cell (xi, zi).
Lookup(xi, zi) ==
    /\ last.op \in {"perm", "sample"}
    /\ ops < MaxLookups
    /\ last' = Call("sample", <<last.args[1], xi, zi>>,
                    [last.result EXCEPT
                        !.indices = cornerIndices(last.result.perm, xi, zi)])
    /\ ops' = ops + 1
    /\ Quiet

NextPerm ==
    \/ Shuffle
    \/ Fill
    \/ \E xi \in LookupCoords, zi \in LookupCoords : Lookup(xi, zi)

SpecPerm == InitPerm /\ [][NextPerm]_vars

\* ------------------------------------------------------------------------
\* C22: permutation table bounds
\* ------------------------------------------------------------------------

\* The index the round for i has swapped with: where p held what q holds
\* at i.
SwappedWith(p, q, i) == CHOOSE j \in 0..255 : p[j] = q[i]

IsPermutation(p) == {p[k] : k \in 0..255} = 0..255

\* C22: for every seed, the index j the shuffle draws at step i satisfies
\* 0 <= j <= i and the step swaps p[i] and p[j], so the table stays a
\* permutation of 0..255; the finished table has 512 entries, its first 256
\* a permutation of 0..255 and entry i + 256 equal to entry i; and for every
\* integer cell (xi, zi) with 0 <= xi, zi <= 255 every index sample reads
\* the table at is within 0..511.
C22_Step ==
    /\ last'.op = "p" =>
          Then(LAMBDA q :
                  /\ SwappedWith(last.result.p, q, last.args[2]) \in 0..last.args[2]
                  /\ q = [last.result.p EXCEPT
                            ![last.args[2]] =
                                last.result.p[SwappedWith(last.result.p, q, last.args[2])],
                            ![SwappedWith(last.result.p, q, last.args[2])] =
                                last.result.p[last.args[2]]]
                  /\ IsPermutation(q),
               last'.result.p)
    /\ last'.op = "perm" =>
          Then(LAMBDA t :
                  /\ DOMAIN t = 0..511
                  /\ IsPermutation(t)
                  /\ \A k \in 0..255 : t[k + 256] = t[k]
                  /\ t = ValueNoise(last.args[1])
                  /\ \A xi \in 0..255, zi \in 0..255 :
                        /\ {xi, xi + 1} \subseteq DOMAIN t
                        /\ {t[xi] + zi, t[xi + 1] + zi + 1} \subseteq DOMAIN t,
               last'.result.perm)
    /\ last'.op = "sample" =>
          \A n \in 1..6 : last'.result.indices[n] \in 0..511

C22_TableBounds == [][C22_Step]_vars

\* sample in the last cell of the table of seed 7: it reads perm[256] and
\* an entry of the table's second half.
C22_Witness ==
    /\ last.op = "sample"
    /\ last.args = <<7, 255, 255>>
    /\ last.result.indices[2] = 256
    /\ last.result.indices[6] >= 257
    /\ last.result.perm[256] = last.result.perm[0]

====
